---- MODULE Spec2Model ----
(***************************************************************************)
(* ContractAnalyzer (src/src/analyzer.ts): the batch loop of analyze, the  *)
(* two retrying network calls, the filter, the append-only output log and  *)
(* the processedIds set rebuilt from it.                                   *)
(*                                                                         *)
(* One process runs analyze; an action is the code that runs between two   *)
(* suspension points (await).  The output log survives the process;        *)
(* everything else is lost when the process is started again.              *)
(***************************************************************************)
EXTENDS Integers, Sequences, FiniteSets, TLC

\* ------------------------------------------------------------ constants
BATCH_SIZE == 100
MIN_CONTRACT_VALUE == 50000
MAX_RETRIES == 3
RATE_LIMIT_DELAY == 1000

\* ------------------------------------------------------------ bounds
\* Number of offsets (0, BATCH_SIZE, ...) at which the source holds records;
\* every later offset yields an empty page.
NumPages == 2
\* Largest number of records in the modelled source, all pages together.
MaxRecords == 2
\* Largest number of elements in one classifier response.
MaxResp == 2
\* Number of times the process is started (the log is kept across starts).
MaxRuns == 2

\* Record identifiers.
Ids == {"a", "b"}

\* ------------------------------------------------------------ strings
\* A string is a tuple of one-character strings.
Digits == {"0", "1", "2", "3", "4", "5", "6", "7", "8", "9"}

DigitVal(c) ==
  CASE c = "0" -> 0 [] c = "1" -> 1 [] c = "2" -> 2 [] c = "3" -> 3
    [] c = "4" -> 4 [] c = "5" -> 5 [] c = "6" -> 6 [] c = "7" -> 7
    [] c = "8" -> 8 [] c = "9" -> 9

\* "$50,000.00" and "$49,999.99"
V50000 == <<"$", "5", "0", ",", "0", "0", "0", ".", "0", "0">>
V49999 == <<"$", "4", "9", ",", "9", "9", "9", ".", "9", "9">>

\* contract_value strings of the records of the modelled source.
Values == {V50000, V49999}

\* value.replace(/[^0-9.-]+/g, ""): only digits, "." and "-" are kept.
StripNonNumeric(value) ==
  SelectSeq(value, LAMBDA c : c \in Digits \cup {".", "-"})

\* The longest prefix of s made of digits, and its value.
RECURSIVE DigitRun(_)
DigitRun(s) ==
  IF s = <<>> \/ Head(s) \notin Digits THEN <<>>
  ELSE <<Head(s)>> \o DigitRun(Tail(s))

RECURSIVE DigitsValue(_, _)
DigitsValue(ds, acc) ==
  IF ds = <<>> THEN acc
  ELSE DigitsValue(Tail(ds), 10 * acc + DigitVal(Head(ds)))

\* parseFloat on a string of digits, "." and "-": an optional "-", digits, an
\* optional "." and digits; at least one digit, else NaN; the rest is ignored.
\* The result is NaN or a sign, the whole part and the fraction digits.
ParseFloat(s) ==
  LET neg   == s # <<>> /\ Head(s) = "-"
      body  == IF neg THEN Tail(s) ELSE s
      whole == DigitRun(body)
      rest  == SubSeq(body, Len(whole) + 1, Len(body))
      frac  == IF rest # <<>> /\ Head(rest) = "." THEN DigitRun(Tail(rest))
               ELSE <<>>
  IN  IF whole = <<>> /\ frac = <<>>
      THEN [nan |-> TRUE, neg |-> FALSE, whole |-> 0, frac |-> <<>>]
      ELSE [nan |-> FALSE, neg |-> neg, whole |-> DigitsValue(whole, 0),
            frac |-> frac]

parseContractValue(value) == ParseFloat(StripNonNumeric(value))

\* v > n in place of v >= n.
NumGE_strict(v, n) == ~v.nan /\ ~v.neg /\ v.whole > n

\* v >= n for a parsed number v and a positive integer n; NaN >= n is false.
NumGE(v, n) == ~v.nan /\ ~v.neg /\ v.whole >= n

\* ------------------------------------------------------------ data
\* A source record: the two fields the filter reads.
Contracts == [procurement_id : Ids, contract_value : Values]

RECURSIVE SeqsUpTo(_, _)
SeqsUpTo(S, n) ==
  IF n = 0 THEN {<<>>}
  ELSE LET shorter == SeqsUpTo(S, n - 1)
       IN  shorter \cup {Append(s, x) : s \in {t \in shorter : Len(t) = n - 1}, x \in S}

Pages == SeqsUpTo(Contracts, MaxRecords)

\* An element of the classifier's contracts array: an object with a
\* contract_id, or null.
NullItem == [isNull |-> TRUE, contract_id |-> ""]
FlaggedItem(id) == [isNull |-> FALSE, contract_id |-> id]
Items == {FlaggedItem(i) : i \in Ids} \cup {NullItem}

\* A line of the output log: the JSON text of an object with a contract_id,
\* the text "null", or text that is not JSON.
ObjectLine(id) == [json |-> "object", contract_id |-> id]
NullLine == [json |-> "null", contract_id |-> ""]
CorruptLine == [json |-> "invalid", contract_id |-> ""]

\* JSON.stringify(contract)
Stringify(item) ==
  IF item.isNull THEN NullLine ELSE ObjectLine(item.contract_id)

\* Mutant: the texts are joined without the newline between them, so a
\* batch is one line, which starts as its first text does.
NdjsonLines_oneLine(contracts) ==
  IF contracts = <<>> THEN <<>> ELSE <<Stringify(Head(contracts))>>

\* contracts.map(contract => JSON.stringify(contract))
RECURSIVE NdjsonLines(_)
NdjsonLines(contracts) ==
  IF contracts = <<>> THEN <<>>
  ELSE <<Stringify(Head(contracts))>> \o NdjsonLines(Tail(contracts))

\* The identifiers of the object lines of a log.
LogIds(lines) == {lines[i].contract_id : i \in {j \in 1..Len(lines) : lines[j].json = "object"}}

\* The number of lines of a log that carry identifier id.
LinesOf(lines, id) == Cardinality({i \in 1..Len(lines) : lines[i] = ObjectLine(id)})


\* ------------------------------------------------------------ state
VARIABLES
  source,             \* the paginated dataset: page index -> records
  log,                \* OUTPUT_FILE: the lines of flagged_contracts.ndjson
  processedIds,       \* this.processedIds
  pc,                 \* where analyze is suspended, or how it ended
  failure,            \* what made analyze reject ("none" while it has not):
                      \*   "fetch"     getContractsWithRetry ran out of retries
                      \*   "body"      the source's body was not JSON
                      \*   "result"    the source's response had no result
                      \*   "contracts" the classifier's contracts was no array of objects
                      \*   "append"    appendFile failed
  startOffset,        \* the argument of analyze
  offset,             \* analyze: offset
  batchNumber,        \* analyze: batchNumber
  totalContracts,     \* analyze: totalContracts
  totalHighValue,     \* analyze: totalHighValue
  totalFlagged,       \* analyze: totalFlagged
  allContracts,       \* analyze: allContracts of the current batch
  highValueContracts, \* analyze: highValueContracts of the current batch
  flagged,            \* analyze: flagged of the current batch
  retries,            \* getContractsWithRetry: retries
  gptRetries,         \* analyzeContractsWithGPT: retries
  attempts,           \* offsets requested by the current getContractsWithRetry call
  waits,              \* delays slept by the current getContractsWithRetry call
  gptWaits,           \* delays slept by the current analyzeContractsWithGPT call
  gptGaveUp,          \* the current batch's classifier call exhausted its retries
  processed,          \* offsets of the pages processed by this run, in order
  run,                \* how many times the process has been started
  prevClean,          \* the previous run started at offset 0 and ended
                      \* cleanly at the first empty page of the source
  logAtStart,         \* the number of log lines when this run started
  argv,               \* the arguments after the script's name: <<>> or <<n>>
  apiKey,             \* process.env.OPENAI_API_KEY is set
  exitCode            \* <<>> while the process lives, then <<its exit code>>

vars == <<source, log, processedIds, pc, failure, startOffset, offset,
          batchNumber, totalContracts, totalHighValue, totalFlagged,
          allContracts, highValueContracts, flagged, retries, gptRetries,
          attempts, waits, gptWaits, gptGaveUp, processed, run, prevClean,
          logAtStart, argv, apiKey, exitCode>>

\* What outlives the process, and the bookkeeping of runs.
durable == <<source, log>>
commandLine == <<argv, apiKey, exitCode>>
runInfo == <<run, prevClean, logAtStart, startOffset, commandLine>>
counters == <<totalContracts, totalHighValue, totalFlagged>>
batchLocals == <<allContracts, highValueContracts, flagged>>
fetchCall == <<retries, attempts, waits>>
gptCall == <<gptRetries, gptWaits, gptGaveUp>>

\* Offsets analyze may be started at.
StartOffsets == {0, BATCH_SIZE}

\* The number of records of pages 0..n-1 of a dataset.
RECURSIVE TotalRecords(_, _)
TotalRecords(src, n) ==
  IF n = 0 THEN 0 ELSE Len(src[n - 1]) + TotalRecords(src, n - 1)

\* The datasets of the model.
Sources ==
  {src \in [0..(NumPages - 1) -> Pages] : TotalRecords(src, NumPages) <= MaxRecords}

\* The records the source holds at an offset.
PageAt(off) ==
  IF off % BATCH_SIZE = 0 /\ (off \div BATCH_SIZE) \in DOMAIN source
  THEN source[off \div BATCH_SIZE]
  ELSE <<>>

\* The state of a freshly started process: field initialisers and the
\* locals of analyze, before loadProcessedIds.
Fresh(start) ==
  /\ processedIds = {}
  /\ pc = "init"
  /\ failure = "none"
  /\ startOffset = start
  /\ offset = start
  /\ batchNumber = 1
  /\ totalContracts = 0
  /\ totalHighValue = 0
  /\ totalFlagged = 0
  /\ allContracts = <<>>
  /\ highValueContracts = <<>>
  /\ flagged = <<>>
  /\ retries = 0
  /\ gptRetries = 0
  /\ attempts = <<>>
  /\ waits = <<>>
  /\ gptWaits = <<>>
  /\ gptGaveUp = FALSE
  /\ processed = <<>>

\* analyze is called on an analyzer built with a key, by a caller that
\* passes its starting offset itself.
CalledDirectly ==
  /\ argv = <<>>
  /\ apiKey = TRUE
  /\ exitCode = <<>>

Init ==
  /\ CalledDirectly
  /\ source \in Sources
  /\ log = <<>>
  /\ run = 1
  /\ prevClean = FALSE
  /\ logAtStart = 0
  /\ \E start \in StartOffsets : Fresh(start)

\* ------------------------------------------------------------ loadProcessedIds
\* The for loop over the lines: an object line adds its contract_id; on any
\* other line JSON.parse or the property read throws, and the catch ends
\* the load with what was added so far.
RECURSIVE LoadLines(_, _)
LoadLines(lines, ids) ==
  IF lines = <<>> THEN ids
  ELSE IF Head(lines).json = "object"
       THEN LoadLines(Tail(lines), ids \cup {Head(lines).contract_id})
       ELSE ids

\* analyze up to its first fetch: loadProcessedIds, then the loop's first
\* getContractsWithRetry(offset) is issued.
loadProcessedIds ==
  /\ pc = "init"
  /\ processedIds' = LoadLines(log, processedIds)
  /\ pc' = "fetching"
  /\ attempts' = <<offset>>
  /\ UNCHANGED <<durable, runInfo, counters, batchLocals, failure, offset,
                 batchNumber, retries, waits, gptCall, processed>>

\* ------------------------------------------------------------ filter
filterHighValueContracts(contracts) ==
  SelectSeq(contracts, LAMBDA contract :
    LET value == parseContractValue(contract.contract_value)
        isHighValue == NumGE(value, MIN_CONTRACT_VALUE)
        isNew == contract.procurement_id \notin processedIds
    IN  isHighValue /\ isNew)

\* ------------------------------------------------------------ call frames
\* retries, and the record of a call's attempts and sleeps, belong to the
\* call: they are kept while analyze holds the call's result and dropped
\* with analyze's next step.
DropFetchCall ==
  /\ retries' = 0
  /\ attempts' = <<>>
  /\ waits' = <<>>

DropGptCall ==
  /\ gptRetries' = 0
  /\ gptWaits' = <<>>
  /\ gptGaveUp' = FALSE

\* ------------------------------------------------------------ analyze: failure
\* The catch block of analyze: the error is logged with offset and rethrown.
Reject(why) ==
  /\ pc' = "failed"
  /\ failure' = why

\* Mutant: the offset advances by the number of records the page held.
NextBatch_byPageLength ==
  /\ offset' = offset + Len(PageAt(offset))
  /\ batchNumber' = batchNumber + 1
  /\ pc' = "rateLimitWait"
  /\ allContracts' = <<>>
  /\ highValueContracts' = <<>>
  /\ flagged' = <<>>

\* The end of an iteration: offset += BATCH_SIZE; batchNumber++; then the
\* rate-limit sleep.  The block-scoped constants of the iteration are gone.
NextBatch ==
  /\ offset' = offset + BATCH_SIZE
  /\ batchNumber' = batchNumber + 1
  /\ pc' = "rateLimitWait"
  /\ allContracts' = <<>>
  /\ highValueContracts' = <<>>
  /\ flagged' = <<>>

\* ------------------------------------------------------------ getContractsWithRetry
\* Mutant: out of retries, an empty page is returned instead of the error,
\* and analyze takes it for the end of the stream.
getContractsWithRetry_catch_emptyPage ==
  /\ pc = "fetching"
  /\ pc' = IF retries < MAX_RETRIES THEN "fetchBackoff" ELSE "done"
  /\ UNCHANGED <<durable, runInfo, counters, batchLocals, processedIds, offset,
                 batchNumber, fetchCall, gptCall, processed, failure>>

\* fetch rejects or the status is not ok: the catch block.  With retries
\* left it sleeps; without, the error reaches the catch of analyze.
getContractsWithRetry_catch ==
  /\ pc = "fetching"
  /\ IF retries < MAX_RETRIES
     THEN /\ pc' = "fetchBackoff"
          /\ UNCHANGED failure
     ELSE Reject("fetch")
  /\ UNCHANGED <<durable, runInfo, counters, batchLocals, processedIds, offset,
                 batchNumber, fetchCall, gptCall, processed>>

\* Mutant: exponential backoff, RATE_LIMIT_DELAY * 2^retries.
getContractsWithRetry_retry_exponential ==
  /\ pc = "fetchBackoff"
  /\ waits' = Append(waits, RATE_LIMIT_DELAY * (2 ^ retries))
  /\ retries' = retries + 1
  /\ attempts' = Append(attempts, offset)
  /\ pc' = "fetching"
  /\ UNCHANGED <<durable, runInfo, counters, batchLocals, processedIds, failure,
                 offset, batchNumber, gptCall, processed>>

\* The backoff sleep is over: getContractsWithRetry(offset, retries + 1).
getContractsWithRetry_retry ==
  /\ pc = "fetchBackoff"
  /\ waits' = Append(waits, RATE_LIMIT_DELAY * (retries + 1))
  /\ retries' = retries + 1
  /\ attempts' = Append(attempts, offset)
  /\ pc' = "fetching"
  /\ UNCHANGED <<durable, runInfo, counters, batchLocals, processedIds, failure,
                 offset, batchNumber, gptCall, processed>>

\* The status is ok but the body is not JSON: the promise of response.json()
\* is returned without await, so its rejection passes the catch block and
\* reaches analyze at once.
getContractsWithRetry_badBody ==
  /\ pc = "fetching"
  /\ Reject("body")
  /\ UNCHANGED <<durable, runInfo, counters, batchLocals, processedIds, offset,
                 batchNumber, fetchCall, gptCall, processed>>

\* Mutant: only the number of records is looked at, not the success flag.
EndOfStream_ignoresSuccess(success, records) == Len(records) = 0

\* 'if (!data.success || !data.result.records.length)' for a response whose
\* result is present: end of stream.
EndOfStream(success, records) == ~success \/ Len(records) = 0

\* The same condition throws a TypeError when success is true and there is
\* no result to read records from (with success false, || does not get
\* that far).
ResultMissing(success, hasResult) == success /\ ~hasResult

\* The response arrives: data = {success, result?: {records}}.  analyze
\* runs on to its next suspension point.
getContractsWithRetry_ok(success, hasResult) ==
  /\ pc = "fetching"
  /\ LET records == PageAt(offset)
     IN  IF ResultMissing(success, hasResult)
         THEN /\ Reject("result")
              /\ UNCHANGED <<batchLocals, offset, batchNumber, gptCall, processed>>
         ELSE IF EndOfStream(success, records)
         THEN \* 'No more contracts to analyze'; break
              /\ pc' = "done"
              /\ UNCHANGED <<batchLocals, offset, batchNumber, failure,
                             gptCall, processed>>
         ELSE LET highValue == filterHighValueContracts(records)
              IN  /\ processed' = Append(processed, offset)
                  /\ UNCHANGED failure
                  /\ IF Len(highValue) > 0
                     THEN \* analyzeContractsWithGPT(highValueContracts)
                          /\ allContracts' = records
                          /\ highValueContracts' = highValue
                          /\ flagged' = <<>>
                          /\ pc' = "classifying"
                          /\ gptRetries' = 0
                          /\ gptWaits' = <<>>
                          /\ gptGaveUp' = FALSE
                          /\ UNCHANGED <<offset, batchNumber>>
                     ELSE \* 'No new high-value contracts in batch'
                          /\ NextBatch
                          /\ UNCHANGED gptCall
  /\ UNCHANGED <<durable, runInfo, counters, processedIds, fetchCall>>

\* The rate-limit sleep is over: the next iteration's
\* getContractsWithRetry(offset) is issued.
rateLimitWait ==
  /\ pc = "rateLimitWait"
  /\ pc' = "fetching"
  /\ retries' = 0
  /\ attempts' = <<offset>>
  /\ waits' = <<>>
  /\ DropGptCall
  /\ UNCHANGED <<durable, runInfo, counters, batchLocals, processedIds, failure,
                 offset, batchNumber, processed>>


\* ------------------------------------------------------------ analyzeContractsWithGPT
\* What the classifier call can produce:
\*   "error"      the API call rejects
\*   "unparsable" the message content is not JSON (JSON.parse throws)
\*   "nocontent"  there is no message content
\*   "nokey"      the content is a JSON object without contracts
\*   "string"     contracts is a non-empty string, not an array
\*   "array"      contracts is an array of the given items
GptKinds == {"error", "unparsable", "nocontent", "nokey", "string", "array"}

Responses ==
  {[kind |-> k, contracts |-> <<>>] : k \in GptKinds \ {"array"}}
    \cup {[kind |-> "array", contracts |-> c] : c \in SeqsUpTo(Items, MaxResp)}

\* The response makes the try block throw.
GptThrows(resp) == resp.kind \in {"error", "unparsable"}

\* What the try block returns: 'if (!content) return []' and
\* 'parsed.contracts || []'.
GptReturn(resp) ==
  CASE resp.kind = "nocontent" -> [isArray |-> TRUE, items |-> <<>>]
    [] resp.kind = "nokey"     -> [isArray |-> TRUE, items |-> <<>>]
    [] resp.kind = "string"    -> [isArray |-> FALSE, items |-> <<>>]
    [] resp.kind = "array"     -> [isArray |-> TRUE, items |-> resp.contracts]

\* analyze after 'const flagged = await this.analyzeContractsWithGPT(...)'
\* returned an empty array: the totals, the batch report, the end of the
\* iteration.
BatchDone(nFlagged) ==
  /\ totalContracts' = totalContracts + Len(allContracts)
  /\ totalHighValue' = totalHighValue + Len(highValueContracts)
  /\ totalFlagged' = totalFlagged + nFlagged
  /\ NextBatch

\* Mutant: out of retries, the error is rethrown and reaches the catch of
\* analyze.
analyzeContractsWithGPT_catch_rethrow(resp) ==
  /\ pc = "classifying"
  /\ GptThrows(resp)
  /\ IF gptRetries < MAX_RETRIES
     THEN /\ pc' = "gptBackoff"
          /\ UNCHANGED failure
     ELSE Reject("contracts")
  /\ DropFetchCall
  /\ UNCHANGED <<durable, runInfo, processedIds, counters, batchLocals, offset,
                 batchNumber, gptCall, processed>>

\* Mutant: out of retries, the iteration ends without advancing the offset,
\* so the same page is fetched again.
analyzeContractsWithGPT_catch_samePage(resp) ==
  /\ pc = "classifying"
  /\ GptThrows(resp)
  /\ IF gptRetries < MAX_RETRIES
     THEN /\ pc' = "gptBackoff"
          /\ UNCHANGED <<batchLocals, gptGaveUp>>
     ELSE /\ gptGaveUp' = TRUE
          /\ pc' = "rateLimitWait"
          /\ allContracts' = <<>>
          /\ highValueContracts' = <<>>
          /\ flagged' = <<>>
  /\ DropFetchCall
  /\ UNCHANGED <<durable, runInfo, processedIds, failure, counters, offset,
                 batchNumber, gptRetries, gptWaits, processed>>

\* The catch block of analyzeContractsWithGPT.  With retries left it
\* sleeps; without, it returns [] and analyze goes on.
analyzeContractsWithGPT_catch(resp) ==
  /\ pc = "classifying"
  /\ GptThrows(resp)
  /\ IF gptRetries < MAX_RETRIES
     THEN /\ pc' = "gptBackoff"
          /\ UNCHANGED <<counters, batchLocals, offset, batchNumber, gptGaveUp>>
     ELSE /\ gptGaveUp' = TRUE
          /\ BatchDone(0)
  /\ DropFetchCall
  /\ UNCHANGED <<durable, runInfo, processedIds, failure,
                 gptRetries, gptWaits, processed>>

\* Mutant: the recursive call passes retries on as it is, so the catch
\* never runs out of retries.
analyzeContractsWithGPT_retry_uncounted ==
  /\ pc = "gptBackoff"
  /\ pc' = "classifying"
  /\ UNCHANGED <<durable, runInfo, counters, batchLocals, processedIds, failure,
                 offset, batchNumber, fetchCall, gptCall, processed>>

\* The backoff sleep is over: analyzeContractsWithGPT(contracts, retries + 1).
analyzeContractsWithGPT_retry ==
  /\ pc = "gptBackoff"
  /\ gptWaits' = Append(gptWaits, RATE_LIMIT_DELAY * (gptRetries + 1))
  /\ gptRetries' = gptRetries + 1
  /\ pc' = "classifying"
  /\ UNCHANGED <<durable, runInfo, counters, batchLocals, processedIds, failure,
                 offset, batchNumber, fetchCall, gptGaveUp, processed>>

\* The try block returns.  A non-empty result goes to
\* appendFlaggedContracts, which maps it to lines and awaits appendFile; a
\* string has a length but no map, so appendFlaggedContracts throws.
analyzeContractsWithGPT_return(resp) ==
  /\ pc = "classifying"
  /\ ~GptThrows(resp)
  /\ LET result == GptReturn(resp)
     IN  IF ~result.isArray
         THEN /\ Reject("contracts")
              /\ UNCHANGED <<counters, batchLocals, offset, batchNumber>>
         ELSE IF Len(result.items) > 0
         THEN /\ flagged' = result.items
              /\ pc' = "persisting"
              /\ UNCHANGED <<counters, allContracts, highValueContracts,
                             offset, batchNumber, failure>>
         ELSE /\ BatchDone(0)
              /\ UNCHANGED failure
  /\ DropFetchCall
  /\ UNCHANGED <<durable, runInfo, processedIds, gptCall, processed>>

\* ------------------------------------------------------------ appendFlaggedContracts
\* contracts.forEach(contract => this.processedIds.add(contract.contract_id)):
\* the identifiers added, and whether the loop threw on a null element.
RECURSIVE AddAll(_, _)
AddAll(contracts, ids) ==
  IF contracts = <<>> THEN [ids |-> ids, threw |-> FALSE]
  ELSE IF Head(contracts).isNull THEN [ids |-> ids, threw |-> TRUE]
       ELSE AddAll(Tail(contracts), ids \cup {Head(contracts).contract_id})

\* appendFile resolves: the lines are in the file.
appendFlaggedContracts_written ==
  /\ pc = "persisting"
  /\ log' = log \o NdjsonLines(flagged)
  /\ pc' = "appended"
  /\ DropGptCall
  /\ UNCHANGED <<source, runInfo, counters, batchLocals, processedIds, failure,
                 offset, batchNumber, fetchCall, processed>>

\* Mutant: the identifiers are added before the append is awaited, so a
\* failed append leaves them in the set.
appendFlaggedContracts_fails_addFirst ==
  /\ pc = "persisting"
  /\ Reject("append")
  /\ processedIds' = AddAll(flagged, processedIds).ids
  /\ DropGptCall
  /\ UNCHANGED <<durable, runInfo, counters, batchLocals,
                 offset, batchNumber, fetchCall, processed>>

\* appendFile rejects: nothing is written, the error reaches the catch of
\* analyze.
appendFlaggedContracts_fails ==
  /\ pc = "persisting"
  /\ Reject("append")
  /\ DropGptCall
  /\ UNCHANGED <<durable, runInfo, counters, batchLocals, processedIds,
                 offset, batchNumber, fetchCall, processed>>

\* After the await of appendFile: the set update, then analyze goes on.
appendFlaggedContracts_update ==
  /\ pc = "appended"
  /\ LET added == AddAll(flagged, processedIds)
     IN  /\ processedIds' = added.ids
         /\ IF added.threw
            THEN /\ Reject("contracts")
                 /\ UNCHANGED <<counters, batchLocals, offset, batchNumber>>
            ELSE /\ BatchDone(Len(flagged))
                 /\ UNCHANGED failure
  /\ UNCHANGED <<durable, runInfo, fetchCall, gptCall, processed>>

\* ------------------------------------------------------------ the process
\* The same for a process started after another: the fields and locals a
\* new process begins with.
StartProcess(start) ==
  /\ processedIds' = {}
  /\ pc' = "init"
  /\ failure' = "none"
  /\ startOffset' = start
  /\ offset' = start
  /\ batchNumber' = 1
  /\ totalContracts' = 0
  /\ totalHighValue' = 0
  /\ totalFlagged' = 0
  /\ allContracts' = <<>>
  /\ highValueContracts' = <<>>
  /\ flagged' = <<>>
  /\ retries' = 0
  /\ gptRetries' = 0
  /\ attempts' = <<>>
  /\ waits' = <<>>
  /\ gptWaits' = <<>>
  /\ gptGaveUp' = FALSE
  /\ processed' = <<>>

\* The process ends (analyze settled, or the process was stopped where it
\* was) and is started again: the log is what is left.
Restart(start) ==
  /\ run < MaxRuns
  /\ run' = run + 1
  /\ prevClean' = (pc = "done" /\ startOffset = 0 /\ PageAt(offset) = <<>>)
  /\ logAtStart' = Len(log)
  /\ StartProcess(start)
  /\ UNCHANGED <<durable, commandLine>>

Next ==
  \/ loadProcessedIds
  \/ getContractsWithRetry_catch
  \/ getContractsWithRetry_retry
  \/ getContractsWithRetry_badBody
  \/ \E success, hasResult \in BOOLEAN : getContractsWithRetry_ok(success, hasResult)
  \/ rateLimitWait
  \/ \E resp \in Responses : analyzeContractsWithGPT_catch(resp)
  \/ analyzeContractsWithGPT_retry
  \/ \E resp \in Responses : analyzeContractsWithGPT_return(resp)
  \/ appendFlaggedContracts_written
  \/ appendFlaggedContracts_fails
  \/ appendFlaggedContracts_update
  \/ \E start \in StartOffsets : Restart(start)

Spec == Init /\ [][Next]_vars

TypeOK ==
  /\ pc \in {"init", "fetching", "fetchBackoff", "classifying", "gptBackoff",
             "persisting", "appended", "rateLimitWait", "done", "failed"}
  /\ failure \in {"none", "fetch", "body", "result", "contracts", "append"}
  /\ processedIds \subseteq Ids
  /\ retries \in 0..MAX_RETRIES
  /\ gptRetries \in 0..MAX_RETRIES
  /\ run \in 1..MaxRuns


\* ============================================================ claims
\* The batch boundaries of a run: loadProcessedIds has completed and the
\* first fetch is issued, or an iteration of the loop has completed.
AtBatchBoundary ==
  \/ pc = "rateLimitWait"
  \/ pc = "fetching" /\ retries = 0 /\ processed = <<>>

\* The identifiers of the non-null elements of a classifier result.
ItemIds(contracts) ==
  {contracts[i].contract_id : i \in {j \in 1..Len(contracts) : ~contracts[j].isNull}}

\* C1: an identifier enters processedIds only after the append of its
\* record has succeeded: in every state every identifier of processedIds
\* has a line in the log, processedIds changes only in loadProcessedIds and
\* after a successful append (by identifiers of the appended batch), and a
\* failed append leaves processedIds unchanged.
C1_AppendBeforeAdd ==
  /\ [](processedIds \subseteq LogIds(log))
  /\ [][(pc = "persisting" /\ failure' = "append")
          => processedIds' = processedIds /\ log' = log]_vars
  /\ [][(processedIds' # processedIds /\ run' = run)
          => \/ pc = "init"
             \/ /\ pc = "appended"
                /\ processedIds' \subseteq processedIds \cup ItemIds(flagged)]_vars

\* C1 witness: the append of a new identifier has succeeded and the set
\* update has not yet run.
C1_Witness ==
  /\ pc = "appended"
  /\ \E id \in ItemIds(flagged) : id \notin processedIds /\ id \in LogIds(log)

\* C2 (as claimed): at every batch boundary processedIds is exactly the set
\* of identifiers that have a line in the log.
C2_SetEqualsLog ==
  AtBatchBoundary => processedIds = LogIds(log)

\* C3 (as claimed): the log holds at most one line per identifier.
C3_AtMostOneLine ==
  \A id \in Ids : LinesOf(log, id) <= 1

\* C4 (as claimed): a run from offset 0 that follows a run from offset 0
\* which ended cleanly at the end of the source appends nothing.
C4_IdempotentResume ==
  (prevClean /\ startOffset = 0) => Len(log) = logAtStart


\* The linear backoff schedule after n failures: 1 x, 2 x, ... n x delay.
LinearWaits(n) == [k \in 1..n |-> k * RATE_LIMIT_DELAY]

\* The process goes on (it is not stopped and started again).
SameRun == run' = run

\* C5: a fetch that fails on the initial attempt and on all MAX_RETRIES
\* retries makes analyze reject; the offset reported is the offset of the
\* failed batch (every one of the MAX_RETRIES + 1 attempts asked for it and
\* no page of it was processed), no page is substituted, and the run does
\* nothing more.
C5_FatalFetch ==
  /\ []((pc = "failed" /\ failure = "fetch")
          => /\ retries = MAX_RETRIES
             /\ attempts = [k \in 1..(MAX_RETRIES + 1) |-> offset]
             /\ waits = LinearWaits(MAX_RETRIES)
             /\ offset = startOffset + BATCH_SIZE * Len(processed)
             /\ \A k \in 1..Len(processed) : processed[k] < offset
             /\ allContracts = <<>> /\ highValueContracts = <<>> /\ flagged = <<>>)
  /\ [][(getContractsWithRetry_catch /\ retries = MAX_RETRIES)
          => /\ pc' = "failed" /\ failure' = "fetch"
             /\ UNCHANGED <<offset, log, processedIds, processed>>]_vars
  /\ [][pc = "failed" => ~SameRun]_vars

\* C5 witness: the fetch of the second page ran out of retries.
C5_Witness ==
  /\ pc = "failed" /\ failure = "fetch"
  /\ offset = startOffset + BATCH_SIZE
  /\ Len(attempts) = MAX_RETRIES + 1

\* C6: a classifier call that fails on the initial attempt and on all
\* MAX_RETRIES retries does not end the run: the batch gets an empty
\* result, nothing is appended, processedIds is unchanged, the offset
\* advances by BATCH_SIZE and the next page is fetched.
C6_DegradedClassify ==
  /\ [][((\E resp \in Responses : analyzeContractsWithGPT_catch(resp))
           /\ gptRetries = MAX_RETRIES)
          => /\ gptGaveUp'
             /\ pc' = "rateLimitWait" /\ failure' = "none"
             /\ flagged' = <<>>
             /\ totalFlagged' = totalFlagged
             /\ offset' = offset + BATCH_SIZE
             /\ UNCHANGED <<log, processedIds>>]_vars
  /\ [](gptGaveUp
          => /\ pc = "rateLimitWait"
             /\ gptRetries = MAX_RETRIES
             /\ gptWaits = LinearWaits(MAX_RETRIES))
  /\ [][(gptGaveUp /\ SameRun)
          => pc' = "fetching" /\ attempts' = <<offset>> /\ offset' = offset]_vars

\* C6 witness: the classifier gave up on the first batch after three
\* sleeps; the run goes on at the next offset with nothing appended.
C6_Witness ==
  /\ gptGaveUp
  /\ pc = "rateLimitWait"
  /\ processed = <<startOffset>>
  /\ offset = startOffset + BATCH_SIZE
  /\ totalHighValue > 0 /\ totalFlagged = 0
  /\ log = <<>> /\ processedIds = {}

C9_EndOfStream ==
  /\ [][(\E success, hasResult \in BOOLEAN :
            /\ getContractsWithRetry_ok(success, hasResult)
            /\ (~success \/ (hasResult /\ PageAt(offset) = <<>>)))
          => /\ pc' = "done" /\ failure' = "none"
             /\ UNCHANGED <<offset, batchNumber, log, processedIds, counters,
                            batchLocals, processed>>]_vars
  /\ [](pc = "done"
          => /\ failure = "none"
             /\ attempts # <<>> /\ attempts[Len(attempts)] = offset
             /\ allContracts = <<>> /\ highValueContracts = <<>> /\ flagged = <<>>
             /\ offset = startOffset + BATCH_SIZE * Len(processed))
  /\ [][pc = "done" => ~SameRun]_vars

\* C9 witness: the run ended cleanly at an offset where the source holds
\* records, on a response with success = false.
C9_Witness ==
  /\ pc = "done"
  /\ PageAt(offset) # <<>>
  /\ filterHighValueContracts(PageAt(offset)) # <<>>

\* C10: every completed iteration advances the offset by exactly
\* BATCH_SIZE, whatever the page held; the offsets processed in a run are
\* startOffset, startOffset + BATCH_SIZE, ... in increasing order, once each.
C10_OffsetAdvance ==
  /\ [](/\ \A k \in 1..Len(processed) : processed[k] = startOffset + BATCH_SIZE * (k - 1)
        /\ offset \in {startOffset + BATCH_SIZE * Len(processed),
                       startOffset + BATCH_SIZE * (Len(processed) - 1)}
        /\ pc = "rateLimitWait" => offset = startOffset + BATCH_SIZE * Len(processed)
        /\ batchNumber = 1 + ((offset - startOffset) \div BATCH_SIZE))
  /\ [][(offset' # offset /\ SameRun)
          => offset' = offset + BATCH_SIZE /\ pc' = "rateLimitWait"]_vars
  /\ [][(pc' = "rateLimitWait" /\ pc # "rateLimitWait")
          => offset' = offset + BATCH_SIZE]_vars

\* C10 witness: two pages of different sizes have been processed, one
\* without a candidate; the offset is two batches past the start.
C10_Witness ==
  /\ pc = "rateLimitWait"
  /\ Len(processed) = 2
  /\ offset = startOffset + 2 * BATCH_SIZE
  /\ totalContracts = 1
  /\ Len(PageAt(startOffset)) + Len(PageAt(startOffset + BATCH_SIZE)) = 2


\* ------------------------------------------------------------ the log as found
\* Largest number of lines of an output log found at startup.
MaxLogLen == 3

\* The lines an output log found at startup can hold.
Lines == {ObjectLine(i) : i \in Ids} \cup {NullLine, CorruptLine}

\* A process started on any output log of up to MaxLogLen lines, over a
\* source without records.
InitLoad ==
  /\ CalledDirectly
  /\ source = [p \in 0..(NumPages - 1) |-> <<>>]
  /\ log \in SeqsUpTo(Lines, MaxLogLen)
  /\ run = 1
  /\ prevClean = FALSE
  /\ logAtStart = Len(log)
  /\ \E start \in StartOffsets : Fresh(start)

NextLoad == loadProcessedIds

SpecLoad == InitLoad /\ [][NextLoad]_vars

\* C11 (as claimed): after loadProcessedIds the set holds the identifier of
\* every valid line of the log, also of the valid lines that follow a line
\* that cannot be read.
C11_LoadSkipsCorrupt ==
  pc = "fetching" => LogIds(log) \subseteq processedIds


\* ------------------------------------------------------------ the filter alone
\* Largest number of records of a page handed to the filter.
MaxFilterLen == 3

\* "N/A", "$100,000", "-$60,000.00", "$1,234.00", "50000" and "$5-0,000"
VNotANumber == <<"N", "/", "A">>
V100000 == <<"$", "1", "0", "0", ",", "0", "0", "0">>
VMinus60000 == <<"-", "$", "6", "0", ",", "0", "0", "0", ".", "0", "0">>
V1234 == <<"$", "1", ",", "2", "3", "4", ".", "0", "0">>
VPlain50000 == <<"5", "0", "0", "0", "0">>
VDashInside == <<"$", "5", "-", "0", ",", "0", "0", "0">>

\* contract_value strings handed to the filter.
FilterValues ==
  {V50000, V49999, VNotANumber, V100000, VMinus60000, V1234, VPlain50000,
   VDashInside}

FilterContracts == [procurement_id : Ids, contract_value : FilterValues]

\* Any page of up to MaxFilterLen records, any set of processed identifiers.
InitFilter ==
  /\ CalledDirectly
  /\ source = [p \in 0..(NumPages - 1) |-> <<>>]
  /\ log = <<>>
  /\ run = 1
  /\ prevClean = FALSE
  /\ logAtStart = 0
  /\ processedIds \in SUBSET Ids
  /\ pc = "filter"
  /\ failure = "none"
  /\ startOffset = 0
  /\ offset = 0
  /\ batchNumber = 1
  /\ totalContracts = 0
  /\ totalHighValue = 0
  /\ totalFlagged = 0
  /\ allContracts \in SeqsUpTo(FilterContracts, MaxFilterLen)
  /\ highValueContracts = <<>>
  /\ flagged = <<>>
  /\ retries = 0
  /\ gptRetries = 0
  /\ attempts = <<>>
  /\ waits = <<>>
  /\ gptWaits = <<>>
  /\ gptGaveUp = FALSE
  /\ processed = <<>>

\* const highValueContracts = this.filterHighValueContracts(allContracts)
filterHighValueContracts_call ==
  /\ pc = "filter"
  /\ highValueContracts' = filterHighValueContracts(allContracts)
  /\ pc' = "filtered"
  /\ UNCHANGED <<durable, runInfo, processedIds, failure, offset, batchNumber,
                 counters, allContracts, flagged, fetchCall, gptCall,
                 processed>>

NextFilter == filterHighValueContracts_call

SpecFilter == InitFilter /\ [][NextFilter]_vars

\* The value strings that denote a number of at least 50000.
AtLeast50000 == {V50000, V100000, VPlain50000}

\* The positions of a page whose record is high-value and new.
Selected(page, ids) ==
  {i \in 1..Len(page) :
     /\ page[i].contract_value \in AtLeast50000
     /\ page[i].procurement_id \notin ids}

\* The k-th smallest member of a set of positions.
Nth(positions, k) ==
  CHOOSE i \in positions : Cardinality({j \in positions : j <= i}) = k

ScenarioPageSizes == <<100, 100, 50>>
ScenarioHighValue == <<5, 4, 3>>

\* Page p holds records with identifiers of their own; the first
\* ScenarioHighValue[p + 1] of them are worth "$50,000.00", the others
\* "$49,999.99".
ScenarioSource ==
  [p \in 0..2 |->
     [i \in 1..ScenarioPageSizes[p + 1] |->
        [procurement_id |-> ToString(BATCH_SIZE * p + i),
         contract_value |-> IF i <= ScenarioHighValue[p + 1] THEN V50000
                            ELSE V49999]]]

\* The records of a sequence at a set of positions, in order.
Pick(s, positions) ==
  [k \in 1..Cardinality(positions) |->
     s[CHOOSE i \in positions : Cardinality({j \in positions : j <= i}) = k]]

\* The classifier answers with a well-formed array that flags some of the
\* candidates it was given.
ScenarioResponses ==
  {[kind |-> "array",
    contracts |-> [k \in 1..Cardinality(S) |->
                     FlaggedItem(Pick(highValueContracts, S)[k].procurement_id)]]
     : S \in SUBSET (1..Len(highValueContracts))}

InitScenario ==
  /\ CalledDirectly
  /\ source = ScenarioSource
  /\ log = <<>>
  /\ run = 1
  /\ prevClean = FALSE
  /\ logAtStart = 0
  /\ Fresh(0)

\* Every fetch and every classifier call succeeds at once; every append
\* succeeds.
NextScenario ==
  \/ loadProcessedIds
  \/ getContractsWithRetry_ok(TRUE, TRUE)
  \/ rateLimitWait
  \/ \E resp \in ScenarioResponses : analyzeContractsWithGPT_return(resp)
  \/ appendFlaggedContracts_written
  \/ appendFlaggedContracts_update

SpecScenario == InitScenario /\ [][NextScenario]_vars

\* C13: on the source of 250 records in pages of 100, 100 and 50, of which
\* 12 are high-value and new, a run from offset 0 with an empty log never
\* fails; when it has ended it has processed the pages at 0, 100 and 200,
\* its offset is 300, it counted 250 records and 12 candidates, and the log
\* holds one line for each flagged result: exactly 5 lines when the
\* classifier flagged 5.
C13_EndToEnd ==
  /\ pc # "failed"
  /\ pc = "done" =>
       /\ offset = 3 * BATCH_SIZE
       /\ PageAt(offset) = <<>>
       /\ processed = <<0, BATCH_SIZE, 2 * BATCH_SIZE>>
       /\ totalContracts = 250
       /\ totalHighValue = 12
       /\ Len(log) = totalFlagged
       /\ LogIds(log) = processedIds
       /\ (totalFlagged = 5 => Len(log) = 5 /\ Cardinality(LogIds(log)) = 5)

\* A run that has ended on the empty 4th page after the classifier flagged
\* 5 of the 12 candidates, spread over the three pages.
C13_Witness ==
  /\ pc = "done"
  /\ offset = 300
  /\ totalFlagged = 5
  /\ Len(log) = 5
  /\ {"1", "2", "101", "201"} \subseteq LogIds(log)


\* ------------------------------------------------------------ the entry point
\* The arguments the program is started with: none, or a starting offset.
Argvs == {<<>>, <<0>>, <<BATCH_SIZE>>}

\* The process before the entry point's first statement.
InitIndex ==
  /\ argv \in Argvs
  /\ apiKey \in BOOLEAN
  /\ exitCode = <<>>
  /\ source \in Sources
  /\ log = <<>>
  /\ run = 1
  /\ prevClean = FALSE
  /\ logAtStart = 0
  /\ processedIds = {}
  /\ pc = "index"
  /\ failure = "none"
  /\ startOffset = 0
  /\ offset = 0
  /\ batchNumber = 1
  /\ totalContracts = 0
  /\ totalHighValue = 0
  /\ totalFlagged = 0
  /\ allContracts = <<>>
  /\ highValueContracts = <<>>
  /\ flagged = <<>>
  /\ retries = 0
  /\ gptRetries = 0
  /\ attempts = <<>>
  /\ waits = <<>>
  /\ gptWaits = <<>>
  /\ gptGaveUp = FALSE
  /\ processed = <<>>

\* Without OPENAI_API_KEY: process.exit(1).  With it: new
\* ContractAnalyzer(OPENAI_API_KEY) and analyzer.analyze(), whose startOffset
\* parameter takes its default, 0; process.argv is not read.
index_main ==
  /\ pc = "index"
  /\ IF ~apiKey
     THEN /\ exitCode' = <<1>>
          /\ pc' = "exited"
     ELSE /\ pc' = "init"
          /\ UNCHANGED exitCode
  /\ startOffset' = 0
  /\ offset' = 0
  /\ UNCHANGED <<durable, run, prevClean, logAtStart, argv, apiKey,
                 processedIds, failure, batchNumber, counters, batchLocals,
                 fetchCall, gptCall, processed>>

\* The promise of analyze settles: .then logs 'Analysis completed
\* successfully', .catch logs 'Analysis failed:'.  Neither sets an exit code,
\* nothing is pending, and the process ends with code 0.
index_settled ==
  /\ pc \in {"done", "failed"}
  /\ exitCode = <<>>
  /\ exitCode' = <<0>>
  /\ UNCHANGED <<durable, run, prevClean, logAtStart, startOffset, argv, apiKey,
                 processedIds, pc, failure, offset, batchNumber, counters,
                 batchLocals, fetchCall, gptCall, processed>>

\* One process, from the entry point to its exit.
NextIndex ==
  \/ index_main
  \/ loadProcessedIds
  \/ getContractsWithRetry_catch
  \/ getContractsWithRetry_retry
  \/ getContractsWithRetry_badBody
  \/ \E success, hasResult \in BOOLEAN : getContractsWithRetry_ok(success, hasResult)
  \/ rateLimitWait
  \/ \E resp \in Responses : analyzeContractsWithGPT_catch(resp)
  \/ analyzeContractsWithGPT_retry
  \/ \E resp \in Responses : analyzeContractsWithGPT_return(resp)
  \/ appendFlaggedContracts_written
  \/ appendFlaggedContracts_fails
  \/ appendFlaggedContracts_update
  \/ index_settled

SpecIndex == InitIndex /\ [][NextIndex]_vars

\* The starting offset the command line asks for.
RequestedOffset == IF argv = <<>> THEN 0 ELSE argv[1]

\* C14 (as claimed): the first page the program fetches is the page at the
\* offset given as its argument, and the page at 0 when there is no argument.
C14_ResumeFromArgument ==
  (pc = "fetching" /\ processed = <<>> /\ attempts # <<>>)
    => attempts[1] = RequestedOffset

\* C15 (as claimed): the exit code is not zero when analyze rejected because
\* a fetch ran out of retries, and zero when the run ended at the end of the
\* stream.
C15_ExitCode ==
  exitCode # <<>> =>
    /\ (pc = "failed" /\ failure = "fetch") => exitCode[1] # 0
    /\ pc = "done" => exitCode[1] = 0


\* The lines the log held when this process was started.
LogAtStart == SubSeq(log, 1, logAtStart)

\* C16 (as claimed): the lines appended before the process was stopped are
\* still in the log when it is started again, and once loadProcessedIds has
\* run, processedIds holds the identifier of every result appended before.
C16_CrashDurability ==
  (run > 1 /\ pc # "init") =>
    /\ logAtStart <= Len(log)
    /\ LogIds(LogAtStart) \subseteq processedIds

\* The number of records of the pages at a sequence of offsets.
RECURSIVE RecordsAt(_)
RecordsAt(offsets) ==
  IF offsets = <<>> THEN 0
  ELSE Len(PageAt(Head(offsets))) + RecordsAt(Tail(offsets))

\* C17 (as claimed): when a batch has been completed, and when the run has
\* ended, totalContracts is the number of records of all pages processed so
\* far, also of the pages of which the filter kept no record; and no
\* counter ever decreases while the process goes on.
C17_CountersAdvance ==
  /\ [](pc \in {"rateLimitWait", "done"} => totalContracts = RecordsAt(processed))
  /\ [][SameRun => /\ totalContracts' >= totalContracts
                   /\ totalHighValue' >= totalHighValue
                   /\ totalFlagged' >= totalFlagged]_vars


\* The classifier responses that are not of the expected shape: content that
\* is not JSON, and JSON whose contracts is not an array.
Malformed == {resp \in Responses : resp.kind \in {"unparsable", "string"}}

\* What analyze does with a classifier response.
Classified(resp) ==
  \/ analyzeContractsWithGPT_catch(resp)
  \/ analyzeContractsWithGPT_return(resp)

\* C18 (as claimed): a malformed classifier response ends the batch as a
\* well-formed response without results does: analyzeContractsWithGPT
\* returns [] at once, without a backoff sleep or another call, nothing is
\* appended and the run goes on to the next batch.
C18_MalformedIsZeroResult ==
  [][\A resp \in Malformed :
       Classified(resp) =>
         /\ pc' = "rateLimitWait"
         /\ totalFlagged' = totalFlagged
         /\ log' = log
         /\ failure' = "none"]_vars


\* C19 (as claimed): a response with success true and no result (or no
\* records in it) ends the run as an empty page does: cleanly, not in
\* failure.
C19_AbsentIsEndOfStream ==
  [][getContractsWithRetry_ok(TRUE, FALSE) =>
       /\ pc' = "done"
       /\ failure' = "none"]_vars


\* ------------------------------------------------------------ one run to its end
\* The steps of one call of analyze: the process is not stopped.
NextRun ==
  \/ loadProcessedIds
  \/ getContractsWithRetry_catch
  \/ getContractsWithRetry_retry
  \/ getContractsWithRetry_badBody
  \/ \E success, hasResult \in BOOLEAN : getContractsWithRetry_ok(success, hasResult)
  \/ rateLimitWait
  \/ \E resp \in Responses : analyzeContractsWithGPT_catch(resp)
  \/ analyzeContractsWithGPT_retry
  \/ \E resp \in Responses : analyzeContractsWithGPT_return(resp)
  \/ appendFlaggedContracts_written
  \/ appendFlaggedContracts_fails
  \/ appendFlaggedContracts_update

\* Every awaited promise settles: the file read, each fetch, each classifier
\* call, each append and each sleep; so whenever analyze is suspended it is
\* resumed.
SpecLive == Init /\ [][NextRun]_vars /\ WF_vars(NextRun)

\* C20: every run of analyze ends, done or failed; a fetch makes at most
\* MAX_RETRIES + 1 attempts and a classification at most MAX_RETRIES + 1
\* calls, with at most MAX_RETRIES sleeps between them.
C20_Termination ==
  /\ <>(pc \in {"done", "failed"})
  /\ [](/\ Len(attempts) <= MAX_RETRIES + 1
        /\ Len(waits) <= MAX_RETRIES
        /\ gptRetries + 1 <= MAX_RETRIES + 1
        /\ Len(gptWaits) <= MAX_RETRIES)

\* A run from offset 0 that went through two pages and ended on the empty
\* page after them.
C20_Witness ==
  /\ pc = "done"
  /\ startOffset = 0
  /\ Len(processed) = 2
  /\ offset = 2 * BATCH_SIZE

====
